---- MODULE Spec2Model ----
(***************************************************************************)
(* Model of the main-content scraper: the transformation pipeline          *)
(* (CrawlTransformers), the main-content extractor                         *)
(* (CrawlTransformersMainContent), the per-URL service (MCScraperService)  *)
(* and the concurrent driver (main.py).                                    *)
(*                                                                         *)
(* Markup is modelled in parsed form: a sequence of nodes in document      *)
(* (pre-order) order, each carrying its depth below the document root.     *)
(* A Python dict is a function whose DOMAIN is the set of keys present.    *)
(***************************************************************************)
EXTENDS Integers, Sequences, FiniteSets, TLC

VARIABLES
    pc,         \* control position of the call being modelled
    caller,     \* who called execute_transformers: "direct" or "service"
    meta,       \* the meta dict handed to the pipeline (its "options")
    document,   \* the document dict threaded through the pipeline
    failing,    \* the stage functions that raise in this run (environment)
    iterated,   \* transformers whose loop iteration has run, in order
    called,     \* transformers actually invoked, in order
    parsed,     \* per invoked transformer, the markup parsed into its soup
    logs,       \* logger.error records of execute_transformers
    raised,     \* the exception leaving the current call, or NoError
    env,        \* the process environment read by get_llm_config
    fetched,    \* what ScrapingService.fetch_url returned, <<>> before the fetch
    oracleInput,    \* the payloads sent to the selector oracle
    cleaned_result, \* <<path>> once the oracle's answer has been cleaned
    selectorCalls,  \* the selectors _get_main_content_html was called with
    result,     \* <<r>> once invoke has returned r
    arg,        \* the arguments of the function call being checked
    ret,        \* <<value>> once that call has returned
    tasks,      \* main: per URL, how far its scrape_url task has got
    futures,    \* main: per URL, <<outcome>> once its future is done
    results     \* main: the results list

pipeVars == <<meta, document, failing, iterated, called, parsed, logs>>

svcVars == <<env, fetched, oracleInput, cleaned_result, selectorCalls, result>>

fnVars == <<arg, ret>>

mainVars == <<tasks, futures, results>>

vars == <<pc, caller, raised, pipeVars, svcVars, fnVars, mainVars>>

----------------------------------------------------------------------------
(* Bounds of the model *)

\* largest number of nodes of a generated page
MaxNodes == 3

----------------------------------------------------------------------------
(* Python values *)

None == "None"
NoError == "NoError"
EmptyDict == [k \in {} |-> None]

Put(d, k, v) == (k :> v) @@ d

Get(d, k, default) == IF k \in DOMAIN d THEN d[k] ELSE default

\* {**a, **b}: the keys of both, b winning
Merge(a, b) == b @@ a

Range(s) == {s[i] : i \in 1..Len(s)}

RECURSIVE KeepIdx(_, _, _)
KeepIdx(s, drop, i) ==
    IF i > Len(s) THEN <<>>
    ELSE (IF i \in drop THEN <<>> ELSE <<s[i]>>) \o KeepIdx(s, drop, i + 1)

----------------------------------------------------------------------------
(* Parsed markup *)

NoAttrs == [a \in {} |-> None]

Elem(t, at) == [tag |-> t, text |-> "", attrs |-> at]

TextNode(s) == [tag |-> "#text", text |-> s, attrs |-> NoAttrs]

CommentNode(s) == [tag |-> "#comment", text |-> s, attrs |-> NoAttrs]

IsString(n) == n.tag \in {"#text", "#comment"}

Place(k, d) == [tag |-> k.tag, depth |-> d, text |-> k.text, attrs |-> k.attrs]

\* depths at which a node may follow the nodes of s in document order
NextDepths(s) ==
    IF s = <<>> THEN {1}
    ELSE LET last == s[Len(s)]
         IN  1..(IF IsString(last) THEN last.depth ELSE last.depth + 1)

RECURSIVE TreesOfLen(_, _)
TreesOfLen(kinds, n) ==
    IF n = 0 THEN {<<>>}
    ELSE UNION { {Append(s, Place(k, d)) : k \in kinds, d \in NextDepths(s)} :
                 s \in TreesOfLen(kinds, n - 1) }

Trees(kinds, n) == UNION {TreesOfLen(kinds, m) : m \in 0..n}

\* index of the last node of the subtree rooted at i
End(s, i) ==
    LET after == {j \in (i + 1)..Len(s) : s[j].depth <= s[i].depth}
    IN  IF after = {} THEN Len(s)
        ELSE (CHOOSE j \in after : \A k \in after : j <= k) - 1

\* indices of the proper ancestors of node i
Ancestors(s, i) == {j \in 1..(i - 1) : s[j].depth < s[i].depth /\ i <= End(s, j)}

RECURSIVE Rebase(_, _)
Rebase(s, by) ==
    IF s = <<>> THEN <<>>
    ELSE <<Place(Head(s), Head(s).depth - by)>> \o Rebase(Tail(s), by)

\* the subtree rooted at i as a fragment of its own (depths rebased)
Subtree(s, i) == Rebase(SubSeq(s, i, End(s, i)), s[i].depth - 1)

\* element.decompose() for every element among roots
Decompose(s, roots) ==
    KeepIdx(s, {i \in 1..Len(s) : \E j \in roots : j <= i /\ i <= End(s, j)}, 1)

----------------------------------------------------------------------------
(* CrawlTransformerUtils *)

non_essential_tags ==
    {"script", "style", "meta", "link", "iframe", "svg", "noscript", "figure",
     "picture", "img", "source", "button", "input", "nav", "footer", "header",
     "aside"}

\* the tags html2text renders nothing of
Html2TextQuietTags == {"head", "style", "script"}

\* str.strip() on the sample texts: " " is whitespace only, " t " is padded
Strip(t) == CASE t = " " -> "" [] t = " t " -> "t" [] OTHER -> t

\* html_to_markdown: the text of every rendered text node, a link's text with
\* its target
HtmlToMarkdown(html) ==
    LET rendered(i) ==
            /\ html[i].tag = "#text"
            /\ Strip(html[i].text) # ""
            /\ \A j \in Ancestors(html, i) : html[j].tag \notin Html2TextQuietTags
        target(i) ==
            LET as == {j \in Ancestors(html, i) :
                          html[j].tag = "a" /\ "href" \in DOMAIN html[j].attrs}
            IN  IF as = {} THEN <<>>
                ELSE <<html[CHOOSE j \in as : \A k \in as : k <= j].attrs["href"]>>
        RECURSIVE walk(_)
        walk(i) ==
            IF i > Len(html) THEN <<>>
            ELSE (IF rendered(i)
                  THEN <<[text |-> Strip(html[i].text), href |-> target(i)]>>
                  ELSE <<>>) \o walk(i + 1)
    IN  walk(1)

UnsafeTags == <<"script", "style", "noscript", "meta", "head">>

TagSel(x) == [kind |-> "tag", name |-> x]

ClassSel(x) == [kind |-> "class", name |-> x]

IdSel(x) == [kind |-> "id", name |-> x]

\* soup.select(selector) on one node
SelectorMatches(sel, n) ==
    /\ ~IsString(n)
    /\ CASE sel.kind = "tag" -> n.tag = sel.name
         [] sel.kind = "class" ->
                "class" \in DOMAIN n.attrs /\ n.attrs["class"] = sel.name
         [] sel.kind = "id" ->
                "id" \in DOMAIN n.attrs /\ n.attrs["id"] = sel.name

RECURSIVE RemoveTags(_, _)
RemoveTags(soup, tags) ==
    IF tags = <<>> \/ soup = <<>> THEN soup
    ELSE RemoveTags(
            Decompose(soup, {i \in 1..Len(soup) : soup[i].tag = Head(tags)}),
            Tail(tags))

RECURSIVE RemoveSelected(_, _)
RemoveSelected(soup, sels) ==
    IF sels = <<>> \/ soup = <<>> THEN soup
    ELSE RemoveSelected(
            Decompose(soup, {i \in 1..Len(soup) : SelectorMatches(Head(sels), soup[i])}),
            Tail(sels))

\* a sanitizer that applies the extra selectors whatever the flag says
RemoveUnwantedAlways(soup, exclude_tags, only_main_content, extra_removals) ==
    RemoveSelected(RemoveTags(soup, UnsafeTags \o exclude_tags), extra_removals)

remove_unwanted_elements(soup, exclude_tags, only_main_content, extra_removals) ==
    LET safe == RemoveTags(soup, UnsafeTags \o exclude_tags)
    IN  IF only_main_content THEN RemoveSelected(safe, extra_removals) ELSE safe

\* the first element of the soup with the given tag and attribute value
FindFirst(soup, tag, attr, value) ==
    LET hits == {i \in 1..Len(soup) :
                    /\ soup[i].tag = tag
                    /\ attr \in DOMAIN soup[i].attrs
                    /\ soup[i].attrs[attr] = value}
    IN  IF hits = {} THEN 0 ELSE CHOOSE i \in hits : \A k \in hits : i <= k

FirstTag(soup, tag) ==
    LET hits == {i \in 1..Len(soup) : soup[i].tag = tag}
    IN  IF hits = {} THEN 0 ELSE CHOOSE i \in hits : \A k \in hits : i <= k

\* Tag.string: the text of the only child when that child is a string
TagString(soup, i) ==
    IF End(soup, i) = i + 1 /\ IsString(soup[i + 1]) THEN soup[i + 1].text ELSE None

ContentOf(soup, i) == IF i = 0 THEN None ELSE Get(soup[i].attrs, "content", None)

OgTags == <<"og:title", "og:description", "og:url", "og:image">>

\* tag.replace("og:", "")
BareKey(tag) ==
    CASE tag = "og:title" -> "title" [] tag = "og:description" -> "description"
      [] tag = "og:url" -> "url" [] tag = "og:image" -> "image"

RECURSIVE AddOpenGraph(_, _, _)
AddOpenGraph(soup, metadata, tags) ==
    IF tags = <<>> THEN metadata
    ELSE LET og_meta == FindFirst(soup, "meta", "property", Head(tags))
         IN  AddOpenGraph(soup,
                 IF og_meta # 0 THEN Put(metadata, BareKey(Head(tags)), ContentOf(soup, og_meta))
                 ELSE metadata,
                 Tail(tags))

extract_metadata(soup) ==
    LET title == FirstTag(soup, "title")
        html == FirstTag(soup, "html")
        metadata ==
            [title |-> IF title # 0 THEN TagString(soup, title) ELSE None,
             description |-> ContentOf(soup, FindFirst(soup, "meta", "name", "description")),
             keywords |-> ContentOf(soup, FindFirst(soup, "meta", "name", "keywords")),
             language |-> IF html # 0 THEN Get(soup[html].attrs, "lang", None) ELSE None]
    IN  AddOpenGraph(soup, metadata, OgTags)

\* the characters of the tag names the sample pages use
TagChars ==
    [html |-> <<"h", "t", "m", "l">>, body |-> <<"b", "o", "d", "y">>,
     div |-> <<"d", "i", "v">>, p |-> <<"p">>, a |-> <<"a">>,
     nav |-> <<"n", "a", "v">>, noscript |-> <<"n", "o", "s", "c", "r", "i", "p", "t">>,
     script |-> <<"s", "c", "r", "i", "p", "t">>, title |-> <<"t", "i", "t", "l", "e">>,
     meta |-> <<"m", "e", "t", "a">>, article |-> <<"a", "r", "t", "i", "c", "l", "e">>,
     image |-> <<"i", "m", "a", "g", "e">>]

\* "/[document]", the path of the BeautifulSoup object itself
DocumentPath == <<"/", "[", "d", "o", "c", "u", "m", "e", "n", "t", "]">>

\* str.lstrip(chars): drops the leading characters that are in the set chars
RECURSIVE LStrip(_, _)
LStrip(str, chars) ==
    IF str # <<>> /\ Head(str) \in chars THEN LStrip(Tail(str), chars) ELSE str

RECURSIVE NodeLines(_, _, _), ChildLines(_, _, _, _, _)
\* a walk that descends into every element, the non-essential ones included
NodeLinesDescendsAll(soup, i, path_prefix) ==
    IF IsString(soup[i])
    THEN IF soup[i].tag = "#comment" THEN <<>>
         ELSE IF Strip(soup[i].text) # ""
              THEN <<[path |-> LStrip(path_prefix, Range(DocumentPath)),
                      text |-> Strip(soup[i].text)]>>
              ELSE <<>>
    ELSE ChildLines(soup, i + 1, End(soup, i), soup[i].depth + 1,
                    path_prefix \o <<"/">> \o TagChars[soup[i].tag])

\* node_to_jsonl(node i, path_prefix)
NodeLines(soup, i, path_prefix) ==
    IF IsString(soup[i])
    THEN IF soup[i].tag = "#comment" THEN <<>>
         ELSE IF Strip(soup[i].text) # ""
              THEN <<[path |-> LStrip(path_prefix, Range(DocumentPath)),
                      text |-> Strip(soup[i].text)]>>
              ELSE <<>>
    ELSE IF soup[i].tag \in non_essential_tags THEN <<>>
         ELSE ChildLines(soup, i + 1, End(soup, i), soup[i].depth + 1,
                         path_prefix \o <<"/">> \o TagChars[soup[i].tag])

\* the loop over node.contents: the nodes of depth d among from..to, in order
ChildLines(soup, from, to, d, current_path) ==
    IF from > to THEN <<>>
    ELSE (IF soup[from].depth = d THEN NodeLines(soup, from, current_path) ELSE <<>>)
         \o ChildLines(soup, from + 1, to, d, current_path)

\* node_to_jsonl(soup): the soup object is named "[document]"
node_to_jsonl(soup) == ChildLines(soup, 1, Len(soup), 1, DocumentPath)

----------------------------------------------------------------------------
(* extract_links; a URL or href is the sequence of its lexical parts *)

SchemeTokens == {"http:", "https:", "mailto:"}

\* href.startswith(("http://", "https://"))
StartsWithHttp(href) ==
    Len(href) >= 2 /\ href[1] \in {"http:", "https:"} /\ href[2] = "//"

\* href.startswith("/"): a root-relative "/x" or a scheme-relative "//host/x"
StartsWithSlash(href) == href # <<>> /\ Head(href) \in {"/", "//"}

StartsWithHash(href) == href # <<>> /\ Head(href) = "#"

StartsWithMailto(href) == href # <<>> /\ Head(href) = "mailto:"

\* scheme://host of a base URL
Origin(base) == SubSeq(base, 1, 3)

\* the base URL up to and including the last "/" of its path
BaseDir(base) ==
    LET slashes == {i \in 4..Len(base) : base[i] = "/"}
    IN  IF slashes = {} THEN Origin(base) \o <<"/">>
        ELSE SubSeq(base, 1, CHOOSE i \in slashes : \A k \in slashes : k <= i)

\* the base URL without its fragment
NoFragment(base) ==
    LET hashes == {i \in 1..Len(base) : base[i] = "#"}
    IN  IF hashes = {} THEN base
        ELSE SubSeq(base, 1, (CHOOSE i \in hashes : \A k \in hashes : i <= k) - 1)

\* urllib.parse.urljoin(base, url)
urljoin(base, url) ==
    IF url = <<>> THEN base
    ELSE IF Head(url) \in SchemeTokens THEN url
    ELSE IF Head(url) = "//" THEN <<base[1]>> \o url
    ELSE IF Head(url) = "/" THEN Origin(base) \o url
    ELSE IF Head(url) = "#" THEN NoFragment(base) \o url
    ELSE BaseDir(NoFragment(base)) \o url

\* a collector that appends without looking for an equal entry
AddToList(links, link) == Append(links, link)

\* links.add(link) on the set being built
AddLink(links, link) == IF link \in Range(links) THEN links ELSE Append(links, link)

\* a loop body that resolves in-page anchors like any other relative href
LinkStepKeepsAnchors(links, href, base_url) ==
    IF StartsWithHttp(href) THEN AddLink(links, href)
    ELSE IF StartsWithMailto(href) THEN AddLink(links, href)
    ELSE AddLink(links, urljoin(base_url, href))

\* lines 71-79: the body of the loop over the anchors, for one href
LinkStep(links, href, base_url) ==
    IF StartsWithHttp(href) THEN AddLink(links, href)
    ELSE IF StartsWithSlash(href) THEN AddLink(links, urljoin(base_url, href))
    ELSE IF ~(StartsWithHash(href) \/ StartsWithMailto(href))
         THEN AddLink(links, urljoin(base_url, href))
    ELSE IF StartsWithMailto(href) THEN AddLink(links, href)
    ELSE links

RECURSIVE LinkLoop(_, _, _)
LinkLoop(links, hrefs, base_url) ==
    IF hrefs = <<>> THEN links
    ELSE LinkLoop(LinkStep(links, Head(hrefs), base_url), Tail(hrefs), base_url)

\* soup.find_all("a", href=True): the href of every anchor that has one
AnchorHrefs(soup) ==
    LET RECURSIVE scan(_)
        scan(i) ==
            IF i > Len(soup) THEN <<>>
            ELSE (IF soup[i].tag = "a" /\ "href" \in DOMAIN soup[i].attrs
                  THEN <<soup[i].attrs["href"]>> ELSE <<>>) \o scan(i + 1)
    IN  scan(1)

\* extract_links: list(links), in the order the entries were added
extract_links(soup, base_url) == LinkLoop(<<>>, AnchorHrefs(soup), base_url)

----------------------------------------------------------------------------
(* CrawlTransformers *)

exclude_non_main_tags ==
    <<TagSel("header"), TagSel("footer"), TagSel("nav"), TagSel("aside"),
      ClassSel("header"), ClassSel("top"), ClassSel("navbar"), IdSel("header"),
      ClassSel("footer"), ClassSel("bottom"), IdSel("footer"), ClassSel("sidebar"),
      ClassSel("side"), ClassSel("aside"), IdSel("sidebar"), ClassSel("modal"),
      ClassSel("popup"), IdSel("modal"), ClassSel("overlay"), ClassSel("ad"),
      ClassSel("ads"), ClassSel("advert"), IdSel("ad"), ClassSel("lang-selector"),
      ClassSel("language"), IdSel("language-selector"), ClassSel("social"),
      ClassSel("social-media"), ClassSel("social-links"), IdSel("social"),
      ClassSel("menu"), ClassSel("navigation"), IdSel("nav"), ClassSel("breadcrumbs"),
      IdSel("breadcrumbs"), IdSel("search-form"), ClassSel("search"), IdSel("search"),
      ClassSel("share"), IdSel("share"), ClassSel("widget"), IdSel("widget"),
      ClassSel("cookie"), IdSel("cookie")>>

\* self.transformers, in registration order
transformers ==
    <<"_derive_html_from_raw_html", "_derive_markdown_from_html",
      "_derive_metadata_from_html", "_derive_node_tree">>

\* the document field each transformer assigns
OutputField(t) ==
    CASE t = "_derive_html_from_raw_html" -> "html"
      [] t = "_derive_markdown_from_html" -> "full_markdown"
      [] t = "_derive_metadata_from_html" -> "metadata"
      [] t = "_derive_node_tree" -> "node_tree"

\* BeautifulSoup(markup, "html.parser"): markup is kept in parsed form
Parse(markup) == markup

_derive_html_from_raw_html(soup, m, doc) ==
    Put(doc, "html",
        remove_unwanted_elements(soup,
            Get(m.options, "excludeTags", <<>>),
            Get(m.options, "onlyMainContent", FALSE),
            exclude_non_main_tags))

_derive_markdown_from_html(soup, m, doc) ==
    Put(doc, "full_markdown", HtmlToMarkdown(Parse(doc["html"])))

_derive_metadata_from_html(soup, m, doc) ==
    Put(doc, "metadata", Merge(extract_metadata(soup), Get(doc, "metadata", EmptyDict)))

_derive_node_tree(soup, m, doc) == Put(doc, "node_tree", node_to_jsonl(soup))

Transform(t, soup, m, doc) ==
    CASE t = "_derive_html_from_raw_html" -> _derive_html_from_raw_html(soup, m, doc)
      [] t = "_derive_markdown_from_html" -> _derive_markdown_from_html(soup, m, doc)
      [] t = "_derive_metadata_from_html" -> _derive_metadata_from_html(soup, m, doc)
      [] t = "_derive_node_tree" -> _derive_node_tree(soup, m, doc)

\* a faulty except clause that also discards the failed stage's output field
StageOutcomeClearsField(t, soup, m, doc) ==
    IF t \in failing
    THEN [k \in DOMAIN doc \ {OutputField(t)} |-> doc[k]]
    ELSE Transform(t, soup, m, doc)

\* lines 45-47: the document after document = transformer(soup, meta, document)
\* inside the try; a transformer that raises assigns nothing
StageOutcome(t, soup, m, doc) ==
    IF t \in failing THEN doc ELSE Transform(t, soup, m, doc)

\* not document["rawHtml"]
RawHtmlEmpty(doc) == doc["rawHtml"] = <<>>

\* where control goes when execute_transformers ends, by return or by raise
AfterPipeline(err) ==
    IF caller = "direct" \/ err # NoError THEN "done" ELSE "extract"

\* a loop head that initialises html only while the document has none
LoopHeadInitialisesOnce ==
    /\ pc = "loop"
    /\ IF "rawHtml" \in DOMAIN document
       THEN /\ document' = IF "html" \in DOMAIN document THEN document
                           ELSE Put(document, "html", document["rawHtml"])
            /\ pc' = "try"
            /\ raised' = raised
       ELSE /\ document' = document
            /\ pc' = AfterPipeline("KeyError")
            /\ raised' = "KeyError"
    /\ UNCHANGED <<fnVars, mainVars, caller, meta, failing, iterated, called, parsed, logs, svcVars>>

\* crawl_transformers.py line 40: the assignment at the head of each iteration,
\* outside the try; a document without the rawHtml key raises KeyError here
LoopHead ==
    /\ pc = "loop"
    /\ IF "rawHtml" \in DOMAIN document
       THEN /\ document' = Put(document, "html", document["rawHtml"])
            /\ pc' = "try"
            /\ raised' = raised
       ELSE /\ document' = document
            /\ pc' = AfterPipeline("KeyError")
            /\ raised' = "KeyError"
    /\ UNCHANGED <<fnVars, mainVars, caller, meta, failing, iterated, called, parsed, logs, svcVars>>

\* lines 41-47: the try block of one iteration and its except clause
TryBody ==
    /\ pc = "try"
    /\ LET t == transformers[Len(iterated) + 1]
           soup == Parse(document["html"])
       IN  /\ iterated' = Append(iterated, t)
           /\ IF RawHtmlEmpty(document)
              THEN /\ logs' = Append(logs, [transformer |-> t, error |-> "rawHtml is undefined or empty"])
                   /\ UNCHANGED <<document, called, parsed>>
              ELSE /\ called' = Append(called, t)
                   /\ parsed' = Append(parsed, soup)
                   /\ logs' = IF t \in failing
                              THEN Append(logs, [transformer |-> t, error |-> "stage raised"])
                              ELSE logs
                   /\ document' = StageOutcome(t, soup, meta, document)
           /\ pc' = IF Len(iterated) + 1 = Len(transformers) THEN "return" ELSE "loop"
    /\ UNCHANGED <<fnVars, mainVars, caller, meta, failing, raised, svcVars>>

\* line 48: return document
Return ==
    /\ pc = "return"
    /\ pc' = AfterPipeline(NoError)
    /\ UNCHANGED <<fnVars, mainVars, caller, raised, pipeVars, svcVars>>

----------------------------------------------------------------------------
(* CrawlTransformersMainContent *)

max_tokens == 60000

\* the token "[]", json.dumps of the empty list
EmptyListTokens == 1

\* Optional[int]: <<>> is None, <<n>> is n
NoneInt == <<>>

\* the size estimator on the sample texts; "HUGE" stands for a text of 70000
\* tokens
TextTokens(t) ==
    CASE t = "HUGE" -> 70000 [] t = "ttt" -> 3 [] t = "tt" -> 2 [] OTHER -> 1

RECURSIVE SumTokens(_)
SumTokens(node_tree) ==
    IF node_tree = <<>> THEN 0
    ELSE Len(Head(node_tree).path) + TextTokens(Head(node_tree).text)
         + SumTokens(Tail(node_tree))

\* json.dumps(node_tree)
JsonDumps(node_tree) == [json |-> node_tree]

\* len(encoding.encode(json_string))
TokenCount(json_string) == EmptyListTokens + SumTokens(json_string.json)

\* max_tokens or self.max_tokens
OrDefault(limit) == IF limit # NoneInt /\ limit[1] # 0 THEN limit ELSE <<max_tokens>>

\* _trim_node_tree: the returned string or the error, and the list as the
\* calls of node_tree.pop() leave it
\* a trimmer that works on a copy and leaves the caller's list as it was
TrimOnCopy(node_tree, limit) ==
    LET bound == OrDefault(limit)
        RECURSIVE shrink(_)
        shrink(copy) ==
            IF TokenCount(JsonDumps(copy)) <= bound[1]
            THEN [ok |-> TRUE, value |-> JsonDumps(copy), node_tree |-> node_tree]
            ELSE IF copy # <<>>
                 THEN shrink(SubSeq(copy, 1, Len(copy) - 1))
                 ELSE [ok |-> FALSE, value |-> "Node tree is empty. Cannot trim further.",
                       node_tree |-> node_tree]
    IN  shrink(node_tree)

RECURSIVE _trim_node_tree(_, _)
_trim_node_tree(node_tree, limit) ==
    LET json_string == JsonDumps(node_tree)
        token_count == TokenCount(json_string)
        bound == OrDefault(limit)
    IN  IF token_count <= bound[1]
        THEN [ok |-> TRUE, value |-> json_string, node_tree |-> node_tree]
        ELSE IF node_tree # <<>>
             THEN _trim_node_tree(SubSeq(node_tree, 1, Len(node_tree) - 1), bound)
             ELSE [ok |-> FALSE, value |-> "Node tree is empty. Cannot trim further.",
                   node_tree |-> node_tree]

\* the code-fence marker, three backquotes
Fence == "FENCE"

Ws == " "

RECURSIVE LStripWs(_)
LStripWs(str) == IF str # <<>> /\ Head(str) = Ws THEN LStripWs(Tail(str)) ELSE str

RECURSIVE RStripWs(_)
RStripWs(str) ==
    IF str # <<>> /\ str[Len(str)] = Ws THEN RStripWs(SubSeq(str, 1, Len(str) - 1)) ELSE str

\* str.strip()
StripWs(str) == RStripWs(LStripWs(str))

\* str.replace(Fence, "")
RemoveFences(str) == SelectSeq(str, LAMBDA c : c # Fence)

_clean_result_path(res) == StripWs(RemoveFences(res))

\* the tag a location step "//tag" (descendant-or-self::node()/tag) names
StepTag(step) ==
    CASE step = "//div" -> "div" [] step = "//span" -> "span" [] step = "//p" -> "p"
      [] step = "//noscript" -> "noscript" [] step = "//nav" -> "nav" [] step = "//a" -> "a"

StepTokens == {"//div", "//span", "//p", "//noscript", "//nav", "//a"}

\* the location steps of an expression; white space between them is ignored
StepsOf(expr) == SelectSeq(expr, LAMBDA c : c # Ws)

\* an evaluator that takes the empty expression for a path matching nothing
ValidXPathAcceptsEmpty(expr) == Range(StepsOf(expr)) \subseteq StepTokens

\* whether lxml accepts the expression: at least one step, nothing but steps
ValidXPath(expr) == StepsOf(expr) # <<>> /\ Range(StepsOf(expr)) \subseteq StepTokens

BlockLevelTags == {"div", "p", "article"}

RECURSIVE Deepen(_)
Deepen(s) ==
    IF s = <<>> THEN <<>> ELSE <<Place(Head(s), Head(s).depth + 1)>> \o Deepen(Tail(s))

\* lxml.html.fromstring: a single top-level element is the tree; anything else
\* is wrapped in a div (block-level content) or a span
FromString(full_html) ==
    LET top == {i \in 1..Len(full_html) : full_html[i].depth = 1}
    IN  IF Cardinality(top) = 1 /\ ~IsString(full_html[1]) THEN full_html
        ELSE LET wrapper == IF \E i \in 1..Len(full_html) : full_html[i].tag \in BlockLevelTags
                            THEN "div" ELSE "span"
             IN  <<Place(Elem(wrapper, NoAttrs), 1)>> \o Deepen(full_html)

\* lxml raises ParserError on a document without content
FromStringRaises(full_html) ==
    \A i \in 1..Len(full_html) : IsString(full_html[i]) /\ Strip(full_html[i].text) = ""

\* the tag chain from the root down to node i
RECURSIVE TagChain(_, _)
TagChain(tree, i) ==
    LET up == Ancestors(tree, i)
    IN  IF up = {} THEN <<tree[i].tag>>
        ELSE Append(TagChain(tree, CHOOSE j \in up : \A k \in up : k <= j), tree[i].tag)

RECURSIVE StepTags(_)
StepTags(steps) ==
    IF steps = <<>> THEN <<>> ELSE <<StepTag(Head(steps))>> \o StepTags(Tail(steps))

\* whether the tags of want occur in chain in this order
RECURSIVE IsSubsequence(_, _)
IsSubsequence(want, chain) ==
    IF want = <<>> THEN TRUE
    ELSE IF chain = <<>> THEN FALSE
    ELSE IF Head(want) = Head(chain) THEN IsSubsequence(Tail(want), Tail(chain))
    ELSE IsSubsequence(want, Tail(chain))

\* whether element i is selected by the steps //t1//t2...//tn: it is a tn
\* below a t(n-1) below ... below a t1
Selected(tree, i, want) ==
    LET chain == TagChain(tree, i)
    IN  /\ want # <<>>
        /\ tree[i].tag = want[Len(want)]
        /\ IsSubsequence(SubSeq(want, 1, Len(want) - 1), SubSeq(chain, 1, Len(chain) - 1))

\* tree.xpath(expr) for a path of descendant steps: the selected elements,
\* each once, in document order
XPath(tree, expr) ==
    LET want == StepTags(StepsOf(expr))
        RECURSIVE scan(_)
        scan(i) ==
            IF i > Len(tree) THEN <<>>
            ELSE (IF ~IsString(tree[i]) /\ Selected(tree, i, want) THEN <<i>> ELSE <<>>)
                 \o scan(i + 1)
    IN  scan(1)

\* the tail of element i: the text that follows it in its parent, up to the
\* next element
RECURSIVE TailText(_, _, _)
TailText(tree, j, d) ==
    IF j <= Len(tree) /\ tree[j].tag = "#text" /\ tree[j].depth = d
    THEN <<Place(tree[j], 1)>> \o TailText(tree, j + 1, d)
    ELSE <<>>

\* the element's own markup, from its opening tag to its closing tag
OwnMarkup(tree, i) == Subtree(tree, i)

\* lxml.html.tostring(node, encoding="unicode"): with_tail defaults to True
tostring(tree, i) == OwnMarkup(tree, i) \o TailText(tree, End(tree, i) + 1, tree[i].depth)

RECURSIVE JoinMarkup(_, _)
JoinMarkup(tree, nodes) ==
    IF nodes = <<>> THEN <<>>
    ELSE tostring(tree, Head(nodes)) \o JoinMarkup(tree, Tail(nodes))

\* a selector that answers a miss with empty content instead of raising
SelectOrEmpty(full_html, main_content_selector) ==
    IF FromStringRaises(full_html) \/ ~ValidXPath(main_content_selector)
    THEN [ok |-> FALSE, value |-> <<>>, error |-> "Failed to select main content nodes"]
    ELSE [ok |-> TRUE,
          value |-> JoinMarkup(FromString(full_html),
                               XPath(FromString(full_html), main_content_selector)),
          error |-> NoError]

_get_main_content_html(full_html, main_content_selector) ==
    IF FromStringRaises(full_html) \/ ~ValidXPath(main_content_selector)
    THEN [ok |-> FALSE, value |-> <<>>, error |-> "Failed to select main content nodes"]
    ELSE LET tree == FromString(full_html)
             main_content_nodes == XPath(tree, main_content_selector)
         IN  IF main_content_nodes # <<>>
             THEN [ok |-> TRUE, value |-> JoinMarkup(tree, main_content_nodes),
                   error |-> NoError]
             ELSE [ok |-> FALSE, value |-> <<>>,
                   error |-> "Main content nodes not found in the HTML."]

----------------------------------------------------------------------------
(* MCScraperService and scrape_url *)

\* the URL being scraped
link == <<"https:", "//", "ex.com", "/", "seo">>

\* _prepare_meta: the options name neither excludeTags nor onlyMainContent
_prepare_meta(url) ==
    [id |-> "fetch_url_and_clean_results", url |-> url,
     options |-> [formats |-> <<"html", "links", "markdown", "node_tree">>, actions |-> <<>>]]

ErrorResult(url, error) == [url |-> url, error |-> error]

\* a success record that a faulty caller also stamps with an empty error
SuccessResultWithError(url, main_content) ==
    [url |-> url,
     main_content_html |-> main_content["mc_html"],
     main_content_markdown |-> main_content["mc_markdown"],
     links |-> main_content["mc_links"],
     error |-> <<>>]

\* mc_scraper_service.py lines 47-52
SuccessResult(url, main_content) ==
    [url |-> url,
     main_content_html |-> main_content["mc_html"],
     main_content_markdown |-> main_content["mc_markdown"],
     links |-> main_content["mc_links"]]

\* extract_main_content's except (lines 108-110) wraps the cause in a
\* RuntimeError; fetch_main_content's except (lines 53-54) turns it into a result
ExtractionFailed(cause) ==
    /\ result' = <<ErrorResult(link,
                     <<"Error fetching main content", "Failed to extract main content", cause>>)>>
    /\ pc' = "done"

\* main.py line 51: MCScraperService(link=url); get_llm_config raises without
\* an API key, outside every try of the service
Construct ==
    /\ pc = "construct"
    /\ IF env.OPENAI_API_KEY = ""
       THEN /\ raised' = "OPENAI_API_KEY environment variable must be set."
            /\ pc' = "done"
       ELSE /\ raised' = raised
            /\ pc' = "fetch"
    /\ UNCHANGED <<fnVars, mainVars, caller, pipeVars, svcVars>>

\* what crawl_page can hand back: it catches its own errors and answers
\* status 500 without content
FetchOutcomes(pages) ==
    {[status_code |-> 200, html |-> page] : page \in pages}
        \cup {[status_code |-> 404, html |-> page] : page \in {q \in pages : Len(q) = 1}}
        \cup {[status_code |-> 500, html |-> <<>>]}

\* fetch_main_content lines 32-43: the fetch, its check, and the call of the
\* pipeline
FetchUrl(pages) ==
    /\ pc = "fetch"
    /\ \E fetched_data \in FetchOutcomes(pages) :
        /\ fetched' = <<fetched_data>>
        /\ IF fetched_data.html = <<>> \/ fetched_data.status_code # 200
           THEN /\ result' = <<ErrorResult(link, <<"Failed to fetch content or bad status code">>)>>
                /\ pc' = "done"
                /\ UNCHANGED <<meta, document>>
           ELSE /\ meta' = _prepare_meta(link)
                /\ document' = [rawHtml |-> fetched_data.html, metadata |-> EmptyDict]
                /\ pc' = "loop"
                /\ result' = result
    /\ UNCHANGED <<fnVars, mainVars, caller, raised, failing, iterated, called, parsed, logs,
                   env, oracleInput, cleaned_result, selectorCalls>>

\* extract_main_content lines 84-88: read html and node_tree, trim the list in
\* place (the document holds the same list object)
ExtractTrim ==
    /\ pc = "extract"
    /\ IF "node_tree" \notin DOMAIN document
       THEN /\ ExtractionFailed("KeyError: node_tree")
            /\ UNCHANGED <<document, oracleInput>>
       ELSE LET trimmed == _trim_node_tree(document["node_tree"], NoneInt)
            IN  /\ document' = Put(document, "node_tree", trimmed.node_tree)
                /\ IF trimmed.ok
                   THEN /\ oracleInput' = Append(oracleInput, trimmed.value)
                        /\ pc' = "oracle"
                        /\ result' = result
                   ELSE /\ ExtractionFailed(trimmed.value)
                        /\ oracleInput' = oracleInput
    /\ UNCHANGED <<fnVars, mainVars, caller, raised, meta, failing, iterated, called, parsed, logs,
                   env, fetched, cleaned_result, selectorCalls>>

\* line 91 raising: the oracle call fails
OracleRaises ==
    /\ pc = "oracle"
    /\ ExtractionFailed("oracle invocation failed")
    /\ UNCHANGED <<fnVars, mainVars, caller, raised, pipeVars, env, fetched, oracleInput, cleaned_result,
                   selectorCalls>>

\* lines 91-94: the oracle answers with any text; the answer is cleaned
OracleAnswers(responses) ==
    /\ pc = "oracle"
    /\ \E content \in responses :
        cleaned_result' = <<_clean_result_path(StripWs(content))>>
    /\ pc' = "select"
    /\ UNCHANGED <<fnVars, mainVars, caller, raised, pipeVars, env, fetched, oracleInput, selectorCalls, result>>

\* lines 97-107 and the return of fetch_main_content (lines 47-52)
SelectAndDerive ==
    /\ pc = "select"
    /\ selectorCalls' = Append(selectorCalls, cleaned_result[1])
    /\ LET full_html == document["html"]
           main_content_html == _get_main_content_html(full_html, cleaned_result[1])
           main_content ==
               Put(Put(Put(Put(document,
                   "mc_path", cleaned_result[1]),
                   "mc_html", main_content_html.value),
                   "mc_markdown", HtmlToMarkdown(Parse(main_content_html.value))),
                   "mc_links", extract_links(Parse(main_content_html.value), link))
       IN  IF main_content_html.ok
           THEN /\ document' = main_content
                /\ result' = <<SuccessResult(link, main_content)>>
                /\ pc' = "done"
           ELSE /\ ExtractionFailed(main_content_html.error)
                /\ document' = document
    /\ UNCHANGED <<fnVars, mainVars, caller, raised, meta, failing, iterated, called, parsed, logs,
                   env, fetched, oracleInput, cleaned_result>>

----------------------------------------------------------------------------
(* Inputs *)

PageKinds ==
    {Elem("div", NoAttrs), Elem("noscript", NoAttrs), Elem("nav", NoAttrs), TextNode("t")}

Pages == Trees(PageKinds, MaxNodes)

\* the options a direct caller may pass
OptionSets ==
    {EmptyDict,
     [onlyMainContent |-> TRUE],
     [excludeTags |-> <<"div">>],
     [onlyMainContent |-> TRUE, excludeTags |-> <<"div">>]}

\* a direct call of execute_transformers(meta, document)
InitPipeline ==
    /\ pc = "loop"
    /\ caller = "direct"
    /\ meta \in {[options |-> o] : o \in OptionSets}
    /\ document \in {[rawHtml |-> p, metadata |-> EmptyDict] : p \in Pages}
                    \cup {[metadata |-> EmptyDict]}
    /\ failing \in SUBSET Range(transformers)
    /\ iterated = <<>>
    /\ called = <<>>
    /\ parsed = <<>>
    /\ logs = <<>>
    /\ raised = NoError
    /\ env = [OPENAI_API_KEY |-> "sk"]
    /\ fetched = <<>>
    /\ oracleInput = <<>>
    /\ cleaned_result = <<>>
    /\ selectorCalls = <<>>
    /\ result = <<>>
    /\ arg = <<>>
    /\ ret = <<>>
    /\ tasks = <<>>
    /\ futures = <<>>
    /\ results = <<>>

NextPipeline == LoopHead \/ TryBody \/ Return

SpecPipeline == InitPipeline /\ [][NextPipeline]_vars

\* longest oracle answer, in lexical parts
MaxResponse == 2

RECURSIVE SeqsOfLen(_, _)
SeqsOfLen(S, n) ==
    IF n = 0 THEN {<<>>}
    ELSE {Append(q, x) : q \in SeqsOfLen(S, n - 1), x \in S}

SeqsUpTo(S, n) == UNION {SeqsOfLen(S, m) : m \in 0..n}

\* what the oracle may answer: untrusted text
Responses == SeqsUpTo({Fence, Ws, "//div", "//p"}, MaxResponse)

ServicePageKinds ==
    {Elem("div", NoAttrs), Elem("noscript", NoAttrs), TextNode("t"), TextNode("HUGE")}

ServicePages == Trees(ServicePageKinds, MaxNodes)

\* scrape_url(url) for one URL
Init ==
    /\ pc = "construct"
    /\ caller = "service"
    /\ meta = [options |-> EmptyDict]
    /\ document = EmptyDict
    /\ failing \in SUBSET Range(transformers)
    /\ iterated = <<>>
    /\ called = <<>>
    /\ parsed = <<>>
    /\ logs = <<>>
    /\ raised = NoError
    /\ env \in {[OPENAI_API_KEY |-> k] : k \in {"", "sk"}}
    /\ fetched = <<>>
    /\ oracleInput = <<>>
    /\ cleaned_result = <<>>
    /\ selectorCalls = <<>>
    /\ result = <<>>
    /\ arg = <<>>
    /\ ret = <<>>
    /\ tasks = <<>>
    /\ futures = <<>>
    /\ results = <<>>

Next ==
    \/ Construct
    \/ FetchUrl(ServicePages)
    \/ LoopHead
    \/ TryBody
    \/ Return
    \/ ExtractTrim
    \/ OracleRaises
    \/ OracleAnswers(Responses)
    \/ SelectAndDerive

Spec == Init /\ [][Next]_vars

----------------------------------------------------------------------------
(* Direct calls of _trim_node_tree and extract_links *)

\* the variables of the per-URL flow, at rest
ServiceIdle ==
    /\ caller = "direct"
    /\ meta = [options |-> EmptyDict]
    /\ document = EmptyDict
    /\ failing = {}
    /\ iterated = <<>>
    /\ called = <<>>
    /\ parsed = <<>>
    /\ logs = <<>>
    /\ raised = NoError
    /\ fetched = <<>>
    /\ oracleInput = <<>>
    /\ cleaned_result = <<>>
    /\ selectorCalls = <<>>
    /\ result = <<>>

\* longest node tree handed to a direct call of _trim_node_tree
MaxRecords == 3

\* largest budget handed to a direct call of _trim_node_tree
MaxBudget == 6

NodeRecords == {[path |-> <<>>, text |-> t] : t \in {"t", "tt"}}

Budgets == {NoneInt} \cup {<<b>> : b \in 0..MaxBudget}

InitTrim ==
    /\ pc = "call"
    /\ arg \in {[node_tree |-> nt, limit |-> b] :
                    nt \in SeqsUpTo(NodeRecords, MaxRecords), b \in Budgets}
    /\ ret = <<>>
    /\ ServiceIdle
    /\ env = [OPENAI_API_KEY |-> "sk"]
    /\ tasks = <<>>
    /\ futures = <<>>
    /\ results = <<>>

TrimCall ==
    /\ pc = "call"
    /\ ret' = <<_trim_node_tree(arg.node_tree, arg.limit)>>
    /\ pc' = "done"
    /\ UNCHANGED <<arg, mainVars, caller, raised, pipeVars, svcVars>>

SpecTrim == InitTrim /\ [][TrimCall]_vars

\* most anchors of a soup handed to a direct call of extract_links
MaxAnchors == 3

HrefSamples ==
    {<<"https:", "//", "o.com", "/", "x">>, <<"/", "x">>, <<"//", "cdn.com", "/", "x">>,
     <<"#", "top">>, <<"mailto:", "me">>, <<"x">>, <<>>}

AnchorKinds == {Elem("a", [href |-> h]) : h \in HrefSamples} \cup {Elem("a", NoAttrs)}

BaseUrls ==
    {<<"https:", "//", "ex.com", "/">>, <<"http:", "//", "ex.com", "/", "dir", "/", "page">>}

RECURSIVE PlaceAll(_)
PlaceAll(kinds) ==
    IF kinds = <<>> THEN <<>> ELSE <<Place(Head(kinds), 1)>> \o PlaceAll(Tail(kinds))

InitLinks ==
    /\ pc = "call"
    /\ arg \in {[soup |-> PlaceAll(ks), base_url |-> b] :
                    ks \in SeqsUpTo(AnchorKinds, MaxAnchors), b \in BaseUrls}
    /\ ret = <<>>
    /\ ServiceIdle
    /\ env = [OPENAI_API_KEY |-> "sk"]
    /\ tasks = <<>>
    /\ futures = <<>>
    /\ results = <<>>

LinksCall ==
    /\ pc = "call"
    /\ ret' = <<extract_links(arg.soup, arg.base_url)>>
    /\ pc' = "done"
    /\ UNCHANGED <<arg, mainVars, caller, raised, pipeVars, svcVars>>

SpecLinks == InitLinks /\ [][LinksCall]_vars

----------------------------------------------------------------------------
(* Direct calls of the metadata stage *)

\* most nodes of a page handed to a direct call of the metadata stage
MaxMetaNodes == 3

MetaPageKinds ==
    {Elem("title", NoAttrs), TextNode("T"),
     Elem("meta", [name |-> "description", content |-> "D"]),
     Elem("meta", [property |-> "og:title", content |-> "OGT"]),
     Elem("meta", [property |-> "og:description", content |-> "OGD"])}

\* the metadata map a caller's document may already hold
PriorMetadata == {EmptyDict, [title |-> "P"], [description |-> "P", url |-> "U"]}

InitMetadata ==
    /\ pc = "call"
    /\ arg \in {[soup |-> page, document |-> [rawHtml |-> page, html |-> page, metadata |-> md]] :
                    page \in Trees(MetaPageKinds, MaxMetaNodes), md \in PriorMetadata}
    /\ ret = <<>>
    /\ ServiceIdle
    /\ env = [OPENAI_API_KEY |-> "sk"]
    /\ tasks = <<>>
    /\ futures = <<>>
    /\ results = <<>>

MetadataCall ==
    /\ pc = "call"
    /\ ret' = <<_derive_metadata_from_html(arg.soup, meta, arg.document)>>
    /\ pc' = "done"
    /\ UNCHANGED <<arg, mainVars, caller, raised, pipeVars, svcVars>>

SpecMetadata == InitMetadata /\ [][MetadataCall]_vars

----------------------------------------------------------------------------
(* Direct calls of remove_unwanted_elements *)

SanitizePageKinds ==
    {Elem("div", NoAttrs), Elem("nav", NoAttrs), Elem("div", [class |-> "ad"]),
     Elem("script", NoAttrs), TextNode("t")}

InitSanitize ==
    /\ pc = "call"
    /\ arg \in {[soup |-> page, exclude_tags |-> ex, only_main_content |-> omc,
                 extra_removals |-> extra] :
                    page \in Trees(SanitizePageKinds, MaxNodes),
                    ex \in {<<>>, <<"div">>},
                    omc \in BOOLEAN,
                    extra \in {<<>>, <<TagSel("div")>>, exclude_non_main_tags}}
    /\ ret = <<>>
    /\ ServiceIdle
    /\ env = [OPENAI_API_KEY |-> "sk"]
    /\ tasks = <<>>
    /\ futures = <<>>
    /\ results = <<>>

SanitizeCall ==
    /\ pc = "call"
    /\ ret' = <<remove_unwanted_elements(arg.soup, arg.exclude_tags, arg.only_main_content,
                                         arg.extra_removals)>>
    /\ pc' = "done"
    /\ UNCHANGED <<arg, mainVars, caller, raised, pipeVars, svcVars>>

SpecSanitize == InitSanitize /\ [][SanitizeCall]_vars

----------------------------------------------------------------------------
(* Direct calls of node_to_jsonl *)

NodeTreePageKinds ==
    {Elem("html", NoAttrs), Elem("div", NoAttrs), Elem("nav", NoAttrs), Elem("image", NoAttrs),
     TextNode("t"), TextNode("tt"), TextNode(" "), CommentNode("c")}

InitNodeTree ==
    /\ pc = "call"
    /\ arg \in {[soup |-> page] : page \in Trees(NodeTreePageKinds, MaxNodes)}
    /\ ret = <<>>
    /\ ServiceIdle
    /\ env = [OPENAI_API_KEY |-> "sk"]
    /\ tasks = <<>>
    /\ futures = <<>>
    /\ results = <<>>

NodeTreeCall ==
    /\ pc = "call"
    /\ ret' = <<node_to_jsonl(arg.soup)>>
    /\ pc' = "done"
    /\ UNCHANGED <<arg, mainVars, caller, raised, pipeVars, svcVars>>

SpecNodeTree == InitNodeTree /\ [][NodeTreeCall]_vars

----------------------------------------------------------------------------
(* main.py: the URLs on the worker pool *)

\* number of URLs main submits
NumUrls == 3

max_workers == 10

UrlNames == <<"u1", "u2", "u3", "u4", "u5">>

Url(i) == <<"https:", "//", "ex.com", "/", UrlNames[i]>>

\* what invoke can return for a URL (see C8_ResultShape)
InvokeOutcomes(url) ==
    {ErrorResult(url, <<"Failed to fetch content or bad status code">>),
     SuccessResult(url, [mc_html |-> <<>>, mc_markdown |-> <<>>, mc_links |-> <<>>])}

InitMain ==
    /\ pc = "main"
    /\ env \in {[OPENAI_API_KEY |-> k] : k \in {"", "sk"}}
    /\ tasks = [i \in 1..NumUrls |-> "submitted"]
    /\ futures = [i \in 1..NumUrls |-> <<>>]
    /\ results = <<>>
    /\ arg = <<>>
    /\ ret = <<>>
    /\ ServiceIdle

Busy == {i \in 1..NumUrls : tasks[i] \in {"constructed"}}

\* scrape_url line 51 on a pool thread: MCScraperService(link=url); an
\* exception of the constructor leaves scrape_url and ends the future
TaskConstruct(i) ==
    /\ pc = "main"
    /\ tasks[i] = "submitted"
    /\ Cardinality(Busy) < max_workers
    /\ IF env.OPENAI_API_KEY = ""
       THEN /\ tasks' = [tasks EXCEPT ![i] = "finished"]
            /\ futures' = [futures EXCEPT ![i] =
                   <<[exception |-> "OPENAI_API_KEY environment variable must be set."]>>]
       ELSE /\ tasks' = [tasks EXCEPT ![i] = "constructed"]
            /\ futures' = futures
    /\ UNCHANGED <<pc, results, fnVars, caller, raised, pipeVars, svcVars>>

\* scrape_url line 52: await scraper.invoke()
TaskInvoke(i) ==
    /\ pc = "main"
    /\ tasks[i] = "constructed"
    /\ \E r \in InvokeOutcomes(Url(i)) :
        futures' = [futures EXCEPT ![i] = <<[result |-> r]>>]
    /\ tasks' = [tasks EXCEPT ![i] = "finished"]
    /\ UNCHANGED <<pc, results, fnVars, caller, raised, pipeVars, svcVars>>

\* main lines 64-69: as_completed yields a finished future; its result is
\* appended, its exception is logged and nothing is appended
Collect(i) ==
    /\ pc = "main"
    /\ tasks[i] = "finished"
    /\ tasks' = [tasks EXCEPT ![i] = "collected"]
    /\ results' = IF "result" \in DOMAIN futures[i][1]
                  THEN Append(results, futures[i][1].result)
                  ELSE results
    /\ UNCHANGED <<pc, futures, fnVars, caller, raised, pipeVars, svcVars>>

\* main line 71: process_results(results) once every future was collected
ProcessResults ==
    /\ pc = "main"
    /\ \A i \in 1..NumUrls : tasks[i] = "collected"
    /\ pc' = "done"
    /\ UNCHANGED <<mainVars, fnVars, caller, raised, pipeVars, svcVars>>

NextMain ==
    \/ \E i \in 1..NumUrls : TaskConstruct(i)
    \/ \E i \in 1..NumUrls : TaskInvoke(i)
    \/ \E i \in 1..NumUrls : Collect(i)
    \/ ProcessResults

SpecMain == InitMain /\ [][NextMain]_vars

----------------------------------------------------------------------------
(* Claims about execute_transformers *)

NonEmptyRawHtml == "rawHtml" \in DOMAIN document /\ ~RawHtmlEmpty(document)

SameField(f, d1, d2) ==
    /\ (f \in DOMAIN d1) <=> (f \in DOMAIN d2)
    /\ f \in DOMAIN d1 => d1[f] = d2[f]

\* the step that runs the try block of one iteration with a parsed soup
StageStep == pc = "try" /\ pc' # "try" /\ Len(called') = Len(called) + 1

C1_EndState ==
    (pc = "done" /\ NonEmptyRawHtml) =>
        /\ raised = NoError
        /\ iterated = transformers
        /\ called = transformers
        /\ \A t \in Range(transformers) \ failing : OutputField(t) \in DOMAIN document

C1_StageStep ==
    StageStep =>
        LET t == called'[Len(called')]
        IN  /\ t = transformers[Len(called')]
            /\ t \in failing => SameField(OutputField(t), document, document')
            /\ t \notin failing => OutputField(t) \in DOMAIN document'
            /\ (\E r \in Range(logs') : r.transformer = t) <=> t \in failing

\* C1: with a non-empty rawHtml, whatever subset of the four stages raises,
\* execute_transformers returns without raising, every stage is attempted
\* exactly once in the order sanitize, markdown, metadata, node tree, a failing
\* stage leaves its output field as it was before the stage, and a stage that
\* does not fail sets its output field.
C1_FailureIsolation == []C1_EndState /\ [][C1_StageStep]_vars

\* a run in which the sanitizer and the node-tree stage raised, the other two
\* did not, and the call has returned
C1_Witness ==
    /\ pc = "done"
    /\ NonEmptyRawHtml
    /\ failing = {"_derive_html_from_raw_html", "_derive_node_tree"}
    /\ Len(logs) = 2
    /\ "full_markdown" \in DOMAIN document
    /\ "node_tree" \notin DOMAIN document

\* C2: with an empty rawHtml the pipeline fails fast: no stage function is
\* invoked, the remaining iterations are not attempted, and the error reaches
\* the caller.
C2_FailFast ==
    (pc = "done" /\ "rawHtml" \in DOMAIN document /\ RawHtmlEmpty(document)) =>
        /\ called = <<>>
        /\ Len(iterated) <= 1
        /\ raised # NoError

\* the markup the sanitize stage produces for this run's rawHtml and options
CleanedMarkup ==
    remove_unwanted_elements(Parse(document["rawHtml"]),
        Get(meta.options, "excludeTags", <<>>),
        Get(meta.options, "onlyMainContent", FALSE),
        exclude_non_main_tags)

\* C4: every stage after the sanitizer is handed the parse of the sanitizer's
\* output, full_markdown is the rendering of the cleaned markup, and on return
\* the html field holds the cleaned markup.
C4_StagesUseCleanedMarkup ==
    (pc = "done" /\ NonEmptyRawHtml /\ "_derive_html_from_raw_html" \notin failing) =>
        /\ \A i \in 2..Len(parsed) : parsed[i] = Parse(CleanedMarkup)
        /\ document["html"] = CleanedMarkup
        /\ "_derive_markdown_from_html" \notin failing =>
               document["full_markdown"] = HtmlToMarkdown(Parse(CleanedMarkup))

----------------------------------------------------------------------------
(* Claims about extract_main_content and the per-document result *)

Returned == pc = "done" /\ result # <<>>

McKeys == {"mc_path", "mc_html", "mc_markdown", "mc_links"}

ContentKeys == {"main_content_html", "main_content_markdown", "links"}

IsErrorResult(r, cause) ==
    r = ErrorResult(link,
            <<"Error fetching main content", "Failed to extract main content", cause>>)

\* the oracle's answer was empty after cleaning
CleanedEmpty == cleaned_result = <<<<>>>>

\* C5 as stated: an empty cleaned answer fails at the boundary-resolution
\* step, the empty path is never applied to the tree.
C5_EmptyPathNotApplied == CleanedEmpty => selectorCalls = <<>>

\* C5, amended: an empty cleaned answer is handed to _get_main_content_html,
\* whose XPath evaluation rejects it; extract_main_content fails with that
\* error, no mc_ field is set and the result is {url, error} without
\* main_content_html.
C5_EmptyPathFails ==
    (pc = "done" /\ CleanedEmpty) =>
        /\ selectorCalls = <<<<>>>>
        /\ IsErrorResult(result[1], "Failed to select main content nodes")
        /\ DOMAIN result[1] = {"url", "error"}
        /\ DOMAIN document \cap McKeys = {}

C5_Witness ==
    /\ Returned
    /\ CleanedEmpty
    /\ selectorCalls # <<>>
    /\ "error" \in DOMAIN result[1]

\* the selector was called with an expression lxml accepts, on markup it can
\* parse, and the expression matched no node
ZeroMatch ==
    /\ selectorCalls # <<>>
    /\ ~FromStringRaises(document["html"])
    /\ ValidXPath(selectorCalls[1])
    /\ XPath(FromString(document["html"]), selectorCalls[1]) = <<>>

\* C6: a path that matches no node is a hard failure: the selector raises
\* "Main content nodes not found", none of mc_html, mc_markdown, mc_links is
\* set, and the result is {url, error}, never a success with empty content.
C6_ZeroMatchIsFailure ==
    (pc = "done" /\ ZeroMatch) =>
        /\ IsErrorResult(result[1], "Main content nodes not found in the HTML.")
        /\ DOMAIN result[1] = {"url", "error"}
        /\ DOMAIN document \cap McKeys = {}

C6_Witness == Returned /\ ZeroMatch /\ Len(document["html"]) >= 2

RECURSIVE JoinOwnMarkup(_, _)
JoinOwnMarkup(tree, nodes) ==
    IF nodes = <<>> THEN <<>>
    ELSE OwnMarkup(tree, Head(nodes)) \o JoinOwnMarkup(tree, Tail(nodes))

\* C7: the main-content HTML is the concatenation, in match order, of each
\* matched node's own serialized markup (opening tag to closing tag) and
\* nothing else.
C7_OwnMarkupOnly ==
    (Returned /\ "main_content_html" \in DOMAIN result[1]) =>
        LET tree == FromString(document["html"])
        IN  result[1]["main_content_html"]
                = JoinOwnMarkup(tree, XPath(tree, selectorCalls[1]))

----------------------------------------------------------------------------
(* Claims about _trim_node_tree, main and extract_links *)

\* whether the first k records of the call's node tree fit its budget
PrefixFits(k) ==
    TokenCount(JsonDumps(SubSeq(arg.node_tree, 1, k))) <= arg.limit[1]

\* C3: for a budget B >= 0, _trim_node_tree returns the serialization of a
\* non-empty prefix of S whose estimated size is at most B, or fails; it fails
\* exactly when no non-empty prefix fits, and a budget of 0 is a budget of 0.
C3_TrimContract ==
    (pc = "done" /\ ret # <<>> /\ "node_tree" \in DOMAIN arg /\ arg.limit # NoneInt) =>
        /\ ret[1].ok =>
               \E k \in 1..Len(arg.node_tree) :
                   /\ ret[1].value = JsonDumps(SubSeq(arg.node_tree, 1, k))
                   /\ PrefixFits(k)
        /\ ~ret[1].ok <=> ~\E k \in 1..Len(arg.node_tree) : PrefixFits(k)

\* C9: when main has processed the URLs, no task's exception was raised out
\* of scrape_url, and every submitted URL has exactly one entry in results.
C9_OneResultPerUrl ==
    /\ \A i \in DOMAIN futures :
           futures[i] # <<>> => "exception" \notin DOMAIN futures[i][1]
    /\ pc = "done" =>
           \A i \in DOMAIN tasks :
               Cardinality({k \in 1..Len(results) : results[k].url = Url(i)}) = 1

NoDuplicates(list) == \A i, j \in 1..Len(list) : list[i] = list[j] => i = j

CallHrefs == Range(AnchorHrefs(arg.soup))

\* C10: the list extract_links returns holds no string twice, holds no entry
\* that stems from an anchor-only href, and holds every root-relative href
\* resolved against the base URL.
C10_LinkSet ==
    (pc = "done" /\ ret # <<>> /\ "soup" \in DOMAIN arg) =>
        /\ NoDuplicates(ret[1])
        /\ \A e \in Range(ret[1]) :
               /\ ~StartsWithHash(e)
               /\ \E h \in CallHrefs :
                      /\ ~StartsWithHash(h)
                      /\ \/ e = h
                         \/ h = <<>> /\ e = arg.base_url
                         \/ e = Origin(arg.base_url) \o h
                         \/ e = <<arg.base_url[1]>> \o h
                         \/ e = BaseDir(arg.base_url) \o h
        /\ \A h \in CallHrefs :
               /\ (h # <<>> /\ Head(h) = "/") => Origin(arg.base_url) \o h \in Range(ret[1])
               /\ (h # <<>> /\ Head(h) = "//") => <<arg.base_url[1]>> \o h \in Range(ret[1])

\* a call with the same root-relative href twice and an in-page anchor
C10_Witness ==
    /\ pc = "done"
    /\ ret # <<>>
    /\ "soup" \in DOMAIN arg
    /\ AnchorHrefs(arg.soup) = <<<<"/", "x">>, <<"#", "top">>, <<"/", "x">>>>
    /\ Len(ret[1]) = 1

----------------------------------------------------------------------------
(* Claims about the metadata stage *)

\* what the page's own elements say for a bare key, before Open Graph:
\* the title element's text, the named meta tag's content
ElementValue(soup, key) ==
    IF key = "title"
    THEN (IF FirstTag(soup, "title") # 0 THEN TagString(soup, FirstTag(soup, "title")) ELSE None)
    ELSE ContentOf(soup, FindFirst(soup, "meta", "name", key))

\* C11: an Open Graph field stored under its bare key never overwrites an
\* entry already present under that key: a title or description already in
\* the document's metadata map, or already extracted from the title element
\* or the named meta tag, is the value the metadata stage keeps.
C11_OpenGraphKeepsEarlier ==
    (pc = "done" /\ ret # <<>>) =>
        \A key \in {"title", "description"} :
            IF key \in DOMAIN arg.document["metadata"]
            THEN ret[1]["metadata"][key] = arg.document["metadata"][key]
            ELSE ElementValue(arg.soup, key) # None =>
                     ret[1]["metadata"][key] = ElementValue(arg.soup, key)

----------------------------------------------------------------------------
(* Claims about remove_unwanted_elements *)

\* the nodes of the call's soup that are, or lie below, an element whose tag
\* is unsafe or excluded by the caller
Doomed ==
    LET bad == Range(UnsafeTags) \cup Range(arg.exclude_tags)
    IN  {i \in 1..Len(arg.soup) :
            \E j \in Ancestors(arg.soup, i) \cup {i} :
                ~IsString(arg.soup[j]) /\ arg.soup[j].tag \in bad}

RECURSIVE Without(_, _, _)
Without(soup, drop, i) ==
    IF i > Len(soup) THEN <<>>
    ELSE (IF i \in drop THEN <<>> ELSE <<soup[i]>>) \o Without(soup, drop, i + 1)

\* C12: with only_main_content = false, remove_unwanted_elements removes
\* exactly the elements whose tag is unsafe or in exclude_tags, with their
\* descendants, and leaves every other node in place, whatever extra_removals
\* holds.
C12_OnlyUnsafeRemoved ==
    (pc = "done" /\ ret # <<>> /\ ~arg.only_main_content) =>
        ret[1] = Without(arg.soup, Doomed, 1)

\* a call without the flag, with the boilerplate catalogue, on a page with a
\* nav element and a script: the nav is still there, the script is not
C12_Witness ==
    /\ pc = "done"
    /\ ret # <<>>
    /\ ~arg.only_main_content
    /\ arg.extra_removals = exclude_non_main_tags
    /\ \E i \in 1..Len(arg.soup) : arg.soup[i].tag = "script"
    /\ \E i \in 1..Len(ret[1]) : ret[1][i].tag = "nav"
    /\ \A i \in 1..Len(ret[1]) : ret[1][i].tag # "script"

----------------------------------------------------------------------------
(* Claims about node_to_jsonl *)

\* the text nodes of the soup that are to produce a record when the elements
\* with a tag in skip are left out: not a comment, not blank, no ancestor in
\* skip; in document order
RECURSIVE RecordNodes(_, _, _)
RecordNodes(soup, skip, i) ==
    IF i > Len(soup) THEN <<>>
    ELSE (IF /\ soup[i].tag = "#text"
             /\ soup[i].text \notin {"", " "}
             /\ \A j \in Ancestors(soup, i) : soup[j].tag \notin skip
          THEN <<i>> ELSE <<>>) \o RecordNodes(soup, skip, i + 1)

\* the tag names joined by "/"
RECURSIVE JoinPath(_)
JoinPath(tags) ==
    IF tags = <<>> THEN <<>>
    ELSE TagChars[Head(tags)] \o (IF Tail(tags) = <<>> THEN <<>> ELSE <<"/">> \o JoinPath(Tail(tags)))

\* the tag names of the element ancestors of node i, outermost first
AncestorTags(soup, i) == SubSeq(TagChain(soup, i), 1, Len(TagChain(soup, i)) - 1)

\* the non-essential set as the code lists it
ListedInCode ==
    {"script", "style", "meta", "link", "iframe", "svg", "noscript", "figure", "picture",
     "img", "source", "button", "input", "nav", "footer", "header", "aside"}

\* the non-essential set as the specification lists it
ListedInSpec ==
    {"script", "style", "meta", "link", "iframe", "svg", "noscript", "figure", "picture",
     "image", "source", "button", "input", "nav", "footer", "header", "aside"}

\* C13: the path of every record is the chain of the tag names of the text
\* node's element ancestors, outermost first, joined by "/", each name
\* complete and unaltered, whatever the outermost element is.
C13_PathIsAncestorChain ==
    (pc = "done" /\ ret # <<>>) =>
        LET nodes == RecordNodes(arg.soup, ListedInCode, 1)
        IN  \A k \in 1..Len(ret[1]) :
                k <= Len(nodes) => ret[1][k].path = JoinPath(AncestorTags(arg.soup, nodes[k]))

\* the trimmed texts of the given nodes, in order
RECURSIVE TrimmedTexts(_, _)
TrimmedTexts(soup, nodes) ==
    IF nodes = <<>> THEN <<>>
    ELSE <<IF soup[Head(nodes)].text = " t " THEN "t" ELSE soup[Head(nodes)].text>>
         \o TrimmedTexts(soup, Tail(nodes))

RECURSIVE RecordTexts(_)
RecordTexts(lines) ==
    IF lines = <<>> THEN <<>> ELSE <<Head(lines).text>> \o RecordTexts(Tail(lines))

\* C14 as stated, with the set the specification lists (image, no img): no
\* record for a text node below a non-essential element, exactly one record,
\* in document order, for every other non-comment text node that is not blank.
C14_SkipsSpecListedTags ==
    (pc = "done" /\ ret # <<>>) =>
        RecordTexts(ret[1]) = TrimmedTexts(arg.soup, RecordNodes(arg.soup, ListedInSpec, 1))

\* C14, amended: the same with the set the code lists (img, no image).
C14_SkipsCodeListedTags ==
    (pc = "done" /\ ret # <<>>) =>
        RecordTexts(ret[1]) = TrimmedTexts(arg.soup, RecordNodes(arg.soup, ListedInCode, 1))

\* a page with a text below nav, a text below div and a blank text: one
\* record, for the text below div
C14_Witness ==
    /\ pc = "done"
    /\ ret # <<>>
    /\ \E i, j \in 1..Len(arg.soup) :
           /\ arg.soup[i].tag = "nav"
           /\ arg.soup[j].tag = "#text"
           /\ arg.soup[j].text = "t"
           /\ i \in Ancestors(arg.soup, j)
    /\ \E j \in 1..Len(arg.soup) : arg.soup[j].tag = "#text" /\ arg.soup[j].text = "tt"
    /\ RecordTexts(ret[1]) = <<"tt">>

----------------------------------------------------------------------------
(* Claims about the markup and the node list extract_main_content works on *)

\* extract_main_content has been entered and has not returned
InExtract == pc \in {"extract", "oracle", "select"}

SerializerOutput == node_to_jsonl(Parse(fetched[1].html))

IsPrefix(a, b) == Len(a) <= Len(b) /\ a = SubSeq(b, 1, Len(a))

\* the trimming of this run has been done
Trimmed == oracleInput # <<>>

\* C16: _trim_node_tree removes records from the very list it is given: once
\* extract_main_content has trimmed, the document's node_tree field is exactly
\* the prefix of the serializer output that was sent to the oracle, the
\* dropped records are no longer in the document, and the field is empty when
\* trimming ended with the empty-sequence error.
C16_TrimmedInPlace ==
    /\ Trimmed =>
           /\ IsPrefix(document["node_tree"], SerializerOutput)
           /\ oracleInput[1] = JsonDumps(document["node_tree"])
           /\ TokenCount(JsonDumps(SerializerOutput)) > max_tokens =>
                  Len(document["node_tree"]) < Len(SerializerOutput)
    /\ (Returned /\ IsErrorResult(result[1], "Node tree is empty. Cannot trim further.")) =>
           document["node_tree"] = <<>>

\* a run in which trimming dropped the last record and kept the first
C16_Witness ==
    /\ Trimmed
    /\ document["node_tree"] # <<>>
    /\ Len(document["node_tree"]) < Len(SerializerOutput)

====
